---------------------------- MODULE Spec2Model ----------------------------
(***************************************************************************)
(* A model of src/Main.py: the EnergyPolicyPredictor class (predict_energy *)
(* and run_simulation), and the two adapters that call it, the Gradio      *)
(* click callback and the Flask POST /predict handler.                     *)
(*                                                                         *)
(* Numbers.  Python floats are modelled as exact rationals n/d in lowest   *)
(* terms, so the binary rounding error of a float is not in the model.     *)
(* It shows in one place: a value that is exactly halfway between two      *)
(* tenths (999.75) is, as a float, a little above or below the midpoint    *)
(* (999.7499999999999), and ".1f" then rounds it up or down.  Which way is *)
(* the variable tie_up, chosen freely in Init and never changed.  All of   *)
(* the model's inputs are chosen so that every numerator and denominator   *)
(* stays inside TLC's 32-bit integers.                                     *)
(*                                                                         *)
(* Strings.  The module is kept in ASCII, so the source's Korean literals  *)
(* are written as follows:                                                 *)
(*    "SUMMER"             for the season literal of src/Main.py:62        *)
(*    "WINTER"             for the season literal of src/Main.py:64        *)
(*    "SPRING_FALL"        for the season literal of src/Main.py:66        *)
(*    "simulation error: " for the message prefix of src/Main.py:84        *)
(***************************************************************************)
EXTENDS Integers, Sequences, FiniteSets, TLC

VARIABLES predictors, callers, tie_up

vars == <<predictors, callers, tie_up>>

(***************************************************************************)
(* Python values.  Every value is a record with the same four fields, so   *)
(* that any two values can be compared: t is the Python type (or, for a    *)
(* raised exception, the exception class), n/d the number, s the text.     *)
(***************************************************************************)
Abs(i) == IF i < 0 THEN -i ELSE i

RECURSIVE GCD(_, _)
GCD(a, b) == IF b = 0 THEN a ELSE GCD(b, a % b)

\* The number n/d (d # 0) in lowest terms with a positive denominator.
Num(n, d) ==
    LET g == GCD(Abs(n), Abs(d))
        sgn == IF d < 0 THEN -1 ELSE 1
    IN  [t |-> "num", n |-> sgn * (n \div g), d |-> sgn * (d \div g), s |-> ""]

Str(text) == [t |-> "str", n |-> 0, d |-> 1, s |-> text]

None == [t |-> "NoneType", n |-> 0, d |-> 1, s |-> ""]

\* Python's True and False: a bool is an int in arithmetic.
Bool(b) == [t |-> "bool", n |-> IF b THEN 1 ELSE 0, d |-> 1, s |-> ""]

\* A raised exception of class cls with message str(e) = msg.
Raise(cls, msg) == [t |-> cls, n |-> 0, d |-> 1, s |-> msg]

ExceptionClasses == {"TypeError", "AttributeError"}

IsRaised(v) == v.t \in ExceptionClasses

IsNumber(v) == v.t \in {"num", "bool"}

\* The type name Python prints in a TypeError message.  The numeric
\* literals of the formula are floats (the weights) and ints (60, 100, 1).
TypeName(v) == IF v.t = "num" THEN "float" ELSE IF v.t = "str" THEN "str" ELSE v.t

(***************************************************************************)
(* Python arithmetic.  An operand that is a raised exception propagates    *)
(* (the left operand is the one evaluated first).                          *)
(***************************************************************************)
NumMul(a, b) ==
    LET g1 == GCD(Abs(a.n), b.d)
        g2 == GCD(Abs(b.n), a.d)
    IN  Num((a.n \div g1) * (b.n \div g2), (a.d \div g2) * (b.d \div g1))

NumAdd(a, b) ==
    LET g == GCD(a.d, b.d)
    IN  Num(a.n * (b.d \div g) + b.n * (a.d \div g), (a.d \div g) * b.d)

NumNeg(a) == Num(-a.n, a.d)

NumLess(a, b) == a.n * b.d < b.n * a.d

\* float_literal * x   (lines 48, 49: weight * input)
PyMulFloat(w, x) ==
    IF IsRaised(w) THEN w
    ELSE IF IsRaised(x) THEN x
    ELSE IF IsNumber(x) THEN NumMul(w, x)
    ELSE IF x.t = "str"
         THEN Raise("TypeError", "can't multiply sequence by non-int of type 'float'")
    ELSE Raise("TypeError",
               "unsupported operand type(s) for *: 'float' and '" \o TypeName(x) \o "'")

\* x - int_literal   (lines 51, 54: input - 60, input - 100)
PySubInt(x, k) ==
    IF IsRaised(x) THEN x
    ELSE IF IsNumber(x) THEN NumAdd(x, NumNeg(k))
    ELSE Raise("TypeError",
               "unsupported operand type(s) for -: '" \o TypeName(x) \o "' and 'int'")

\* Arithmetic between two values already known to be numbers or raised.
PyMul(a, b) == IF IsRaised(a) THEN a ELSE IF IsRaised(b) THEN b ELSE NumMul(a, b)

PyAdd(a, b) == IF IsRaised(a) THEN a ELSE IF IsRaised(b) THEN b ELSE NumAdd(a, b)

PySub(a, b) == IF IsRaised(a) THEN a ELSE IF IsRaised(b) THEN b ELSE NumAdd(a, NumNeg(b))

\* x / int_literal, the literal not zero   (lines 51, 54)
PyDivInt(a, k) == IF IsRaised(a) THEN a ELSE NumMul(a, Num(k.d, k.n))

\* Mutants of max(0, x): the clamp left out, and abs(x) in its place.
PyMax0_NoClamp(x) == x

PyMax0_Abs(x) == IF IsRaised(x) THEN x ELSE Num(Abs(x.n), x.d)

\* max(0, x): x when x > 0, else the int 0   (line 69)
PyMax0(x) == IF IsRaised(x) THEN x ELSE IF NumLess(Num(0, 1), x) THEN x ELSE Num(0, 1)


(***************************************************************************)
(* EnergyPolicyPredictor                                                   *)
(***************************************************************************)
\* __init__: the state of a freshly constructed predictor.
EnergyPolicyPredictor == [base_production |-> Num(1000, 1), simulation_history |-> <<>>]

\* Mutant: the eco branch with the neutral branch's oil_weight.
EcoWeights_NeutralOilWeight ==
    [interest_weight |-> Num(15, 1000), gdp_weight |-> Num(4, 100),
     oil_weight |-> Num(5, 10), tech_weight |-> Num(5, 10),
     green_bonus |-> Num(12, 10), efficiency_bonus |-> Num(11, 10)]

\* The weights of the branch policy_mode == 'eco'.
EcoWeights ==
    [interest_weight |-> Num(15, 1000), gdp_weight |-> Num(4, 100),
     oil_weight |-> Num(7, 10), tech_weight |-> Num(5, 10),
     green_bonus |-> Num(12, 10), efficiency_bonus |-> Num(11, 10)]

\* The weights of the branch policy_mode == 'non_eco'.
NonEcoWeights ==
    [interest_weight |-> Num(25, 1000), gdp_weight |-> Num(2, 100),
     oil_weight |-> Num(3, 10), tech_weight |-> Num(2, 10),
     green_bonus |-> Num(8, 10), efficiency_bonus |-> Num(9, 10)]

\* Mutant: the else branch with gdp_weight 0.3 for 0.03.
NeutralWeights_GdpWeight ==
    [interest_weight |-> Num(2, 100), gdp_weight |-> Num(3, 10),
     oil_weight |-> Num(5, 10), tech_weight |-> Num(3, 10),
     green_bonus |-> Num(1, 1), efficiency_bonus |-> Num(1, 1)]

\* The weights of the else branch.
NeutralWeights ==
    [interest_weight |-> Num(2, 100), gdp_weight |-> Num(3, 100),
     oil_weight |-> Num(5, 10), tech_weight |-> Num(3, 10),
     green_bonus |-> Num(1, 1), efficiency_bonus |-> Num(1, 1)]

\* Mutant: 'neutral' tested for, and the else branch taking the eco weights.
PolicyWeights_ElseIsEco(policy_mode) ==
    IF policy_mode = Str("non_eco") THEN NonEcoWeights
    ELSE IF policy_mode = Str("neutral") THEN NeutralWeights
    ELSE EcoWeights

\* The weights the if / elif / else on policy_mode selects.
PolicyWeights(policy_mode) ==
    IF policy_mode = Str("eco") THEN EcoWeights
    ELSE IF policy_mode = Str("non_eco") THEN NonEcoWeights
    ELSE NeutralWeights

\* Mutant: the factors of the two seasons exchanged.
SeasonEffect_Swapped(production, season) ==
    IF season = Str("SUMMER") THEN PyMul(production, Num(85, 100))
    ELSE IF season = Str("WINTER") THEN PyMul(production, Num(115, 100))
    ELSE IF season = Str("SPRING_FALL") THEN PyMul(production, Num(1, 1))
    ELSE production

\* The if / elif / elif on season: no branch is taken for any other value.
SeasonEffect(production, season) ==
    IF season = Str("SUMMER") THEN PyMul(production, Num(115, 100))
    ELSE IF season = Str("WINTER") THEN PyMul(production, Num(85, 100))
    ELSE IF season = Str("SPRING_FALL") THEN PyMul(production, Num(1, 1))
    ELSE production

\* predict_energy from line 19 on, given the value line 17 read into
\* production.  A statement that raises ends the function: every later
\* statement has the raised value as its left operand and passes it on.
predict_energy_from(production, interest_rate, season, gdp_growth, oil_price, tech_investment, policy_mode) ==
    LET w  == PolicyWeights(policy_mode)
        p1 == PyMul(production,
                    PySub(Num(1, 1), PyMulFloat(w.interest_weight, interest_rate)))
        p2 == PyMul(p1, PyAdd(Num(1, 1), PyMulFloat(w.gdp_weight, gdp_growth)))
        oil_effect  == PyMul(PyDivInt(PySubInt(oil_price, Num(60, 1)), Num(60, 1)),
                             w.oil_weight)
        p3 == PyMul(p2, PyAdd(Num(1, 1), oil_effect))
        tech_effect == PyMul(PyDivInt(PySubInt(tech_investment, Num(100, 1)), Num(100, 1)),
                             w.tech_weight)
        p4 == PyMul(p3, PyAdd(Num(1, 1), tech_effect))
        p5 == PyMul(p4, w.green_bonus)
        p6 == PyMul(p5, w.efficiency_bonus)
        p7 == SeasonEffect(p6, season)
    IN  PyMax0(p7)

predict_energy(self, interest_rate, season, gdp_growth, oil_price, tech_investment, policy_mode) ==
    predict_energy_from(self.base_production, interest_rate, season, gdp_growth,
                        oil_price, tech_investment, policy_mode)

\* format(x, ".1f") of a number: one decimal place, the value rounded to the
\* nearest tenth; a value halfway between two tenths goes the way of tie_up.
Format1f(x) ==
    LET a      == Abs(x.n)
        whole  == a \div x.d
        r      == a % x.d
        digit  == (10 * r) \div x.d
        r2     == (10 * r) % x.d
        up     == 2 * r2 > x.d \/ (2 * r2 = x.d /\ tie_up)
        tenths == 10 * whole + digit + (IF up THEN 1 ELSE 0)
    IN  (IF x.n < 0 THEN "-" ELSE "")
        \o ToString(tenths \div 10) \o "." \o ToString(tenths % 10)

\* Mutant: except ValueError.
CaughtByExceptException_OnlyValueError(e) == e.t \in {"ValueError"}

\* except Exception: the exception classes the handler catches.
CaughtByExceptException(e) == e.t \in {"TypeError", "AttributeError"}

ErrorPrefix == "simulation error: "

run_simulation(self, interest_rate, season, gdp_growth, oil_price, tech_investment, policy_mode) ==
    LET prediction == predict_energy(self, interest_rate, season, gdp_growth,
                                     oil_price, tech_investment, policy_mode)
    IN  IF ~IsRaised(prediction) THEN Str(Format1f(prediction) \o " TOE")
        ELSE IF CaughtByExceptException(prediction) THEN Str(ErrorPrefix \o prediction.s)
        ELSE prediction

(***************************************************************************)
(* The Gradio adapter (create_gradio_interface)                            *)
(***************************************************************************)
\* Mutant: the components in the order the panel shows them.
GradioInputs_ScreenOrder == <<"interest", "season", "policy_mode", "gdp", "oil", "tech">>

\* inputs=[interest, season, gdp, oil, tech, policy_mode]
GradioInputs == <<"interest", "season", "gdp", "oil", "tech", "policy_mode">>

\* predict_btn.click: fn is called with the components' values, in the
\* order of inputs, as positional arguments; its return value is the text
\* of output_text.
GradioClickResult(model, ui) ==
    run_simulation(model, ui[GradioInputs[1]], ui[GradioInputs[2]], ui[GradioInputs[3]],
                   ui[GradioInputs[4]], ui[GradioInputs[5]], ui[GradioInputs[6]])

(***************************************************************************)
(* The Flask adapter (predict)                                             *)
(***************************************************************************)
JsonKeys == {"interest_rate", "season", "gdp_growth", "oil_price",
             "tech_investment", "policy_mode"}

\* The marker of a key the JSON object does not hold.
Absent == [t |-> "absent", n |-> 0, d |-> 1, s |-> ""]

\* Mutant: data.get(key) or default, which also replaces a null.
DictGet_NoneIsMissing(data, key, default) ==
    IF data.fields[key] \in {Absent, None} THEN default ELSE data.fields[key]

\* dict.get(key, default)
DictGet(data, key, default) ==
    IF data.fields[key] = Absent THEN default ELSE data.fields[key]

\* jsonify({'prediction': prediction}): a 200 response with that text.
Jsonify(prediction) == [t |-> "response", n |-> 200, d |-> 1, s |-> prediction.s]

\* What Flask answers when the view function raises.
InternalServerError == [t |-> "response", n |-> 500, d |-> 1, s |-> ""]

\* predict(): data is request.json, a JSON object or the JSON value null.
predict(energy_model, data) ==
    IF data.kind # "object"
    THEN Raise("AttributeError", "'NoneType' object has no attribute 'get'")
    ELSE run_simulation(energy_model,
                        DictGet(data, "interest_rate", Num(35, 10)),
                        DictGet(data, "season", Str("SPRING_FALL")),
                        DictGet(data, "gdp_growth", Num(25, 10)),
                        DictGet(data, "oil_price", Num(60, 1)),
                        DictGet(data, "tech_investment", Num(100, 1)),
                        DictGet(data, "policy_mode", Str("neutral")))

\* The response to POST /predict.
PredictResponse(energy_model, data) ==
    LET prediction == predict(energy_model, data)
    IN  IF IsRaised(prediction) THEN InternalServerError ELSE Jsonify(prediction)

(***************************************************************************)
(* The inputs the model draws from                                         *)
(***************************************************************************)
\* Numbers inside and outside the ranges the sliders offer, negative ones
\* and ones that make a multiplier of the formula zero or negative.
InterestRates == {Num(0, 1), Num(7, 2), Num(10, 1), Num(50, 1), Num(1000, 1), Num(-2, 1)}

GdpGrowths == {Num(5, 2), Num(-5, 1), Num(10, 1), Num(-1000, 1)}

OilPrices == {Num(60, 1), Num(20, 1), Num(150, 1), Num(-300, 1)}

TechInvestments == {Num(100, 1), Num(50, 1), Num(200, 1), Num(-900, 1)}

\* The three seasons of the radio button, and two other values.
Seasons == {Str("SPRING_FALL"), Str("SUMMER"), Str("WINTER"), Str("autumn"), Str("")}

\* The three modes of the radio button, and two unrecognized strings.
PolicyModes == {Str("eco"), Str("neutral"), Str("non_eco"), Str("ECO"), Str("green")}

\* The argument tuples of a call of predict_energy with numeric inputs.
PredictInputs ==
    InterestRates \X Seasons \X GdpGrowths \X OilPrices \X TechInvestments \X PolicyModes

\* The argument tuples of a call of run_simulation, well typed or not.
SimulationInputs ==
    {Num(7, 2), Num(1000, 1), None, Str("3.5"), Bool(TRUE)}
    \X {Str("SPRING_FALL"), Str("SUMMER"), None, Num(2, 1)}
    \X {Num(5, 2), Num(-1000, 1), None, Str("high")}
    \X {Num(60, 1), Num(90, 1), None, Str("60")}
    \X {Num(100, 1), Num(150, 1), None}
    \X {Str("neutral"), Str("eco"), Str("green"), None}

\* The states of the panel's six components: the sliders hold numbers of
\* their ranges, the radio buttons one of their choices.
PanelStates ==
    {[interest |-> a, season |-> b, gdp |-> c, oil |-> e, tech |-> f, policy_mode |-> g] :
        a \in {Num(7, 2), Num(5, 1)},
        b \in {Str("SPRING_FALL"), Str("SUMMER"), Str("WINTER")},
        c \in {Num(5, 2), Num(-1, 1)},
        e \in {Num(60, 1), Num(90, 1)},
        f \in {Num(100, 1), Num(150, 1)},
        g \in {Str("eco"), Str("neutral"), Str("non_eco")}}

\* The JSON value null as the request body.
NullBody == [kind |-> "null", fields |-> [k \in JsonKeys |-> Absent]]

\* The bodies of POST /predict: null, or an object in which each key is
\* absent, null, of the wrong type, or well typed.
PostedBodies ==
    {NullBody} \cup
    {[kind |-> "object",
      fields |-> [interest_rate |-> a, season |-> b, gdp_growth |-> c,
                  oil_price |-> e, tech_investment |-> f, policy_mode |-> g]] :
        a \in {Absent, None, Str("high"), Num(5, 1)},
        b \in {Absent, None, Num(2, 1), Str("SUMMER")},
        c \in {Absent, None, Bool(TRUE), Num(-1, 1)},
        e \in {Absent, None, Num(90, 1)},
        f \in {Absent, Str("150"), Num(150, 1)},
        g \in {Absent, None, Str("green"), Str("eco")}}

\* The requests of the concurrent specification: a few of each kind.
FewPanelStates ==
    {[interest |-> Num(7, 2), season |-> b, gdp |-> Num(5, 2), oil |-> Num(90, 1),
      tech |-> Num(100, 1), policy_mode |-> g] :
        b \in {Str("SPRING_FALL"), Str("SUMMER")}, g \in {Str("eco"), Str("neutral")}}

FewPostedBodies ==
    {NullBody} \cup
    {[kind |-> "object",
      fields |-> [interest_rate |-> a, season |-> Absent, gdp_growth |-> Absent,
                  oil_price |-> Num(90, 1), tech_investment |-> Absent, policy_mode |-> g]] :
        a \in {Absent, None}, g \in {Absent, Str("eco")}}

(***************************************************************************)
(* The state: the two predictor instances and the calls in progress        *)
(***************************************************************************)
\* model of create_gradio_interface, and the module-level energy_model.
PredictorNames == {"model", "energy_model"}

\* The number of concurrent callers (threads serving requests).
NumCallers == 2

Callers == 1 .. NumCallers

NoRequest == <<>>

Idle == [pc |-> "idle", via |-> "none", self |-> "none", request |-> NoRequest,
         production |-> None, outcome |-> None]

Init ==
    /\ predictors = [p \in PredictorNames |-> EnergyPolicyPredictor]
    /\ callers = [c \in Callers |-> Idle]
    /\ tie_up \in BOOLEAN

\* A direct call energy_model.predict_energy(*args), args one of inputs.
CallPredictEnergy(c, inputs) ==
    /\ callers[c].pc = "idle"
    /\ \E args \in inputs :
          callers' = [callers EXCEPT ![c] = [Idle EXCEPT !.pc = "called",
                         !.via = "predict_energy", !.self = "energy_model", !.request = args]]
    /\ UNCHANGED <<predictors, tie_up>>

\* A direct call energy_model.run_simulation(*args), args one of inputs.
CallRunSimulation(c, inputs) ==
    /\ callers[c].pc = "idle"
    /\ \E args \in inputs :
          callers' = [callers EXCEPT ![c] = [Idle EXCEPT !.pc = "called",
                         !.via = "run_simulation", !.self = "energy_model", !.request = args]]
    /\ UNCHANGED <<predictors, tie_up>>

\* A click on predict_btn with the panel in one of the states: Gradio calls
\* model.run_simulation.
GradioClick(c, states) ==
    /\ callers[c].pc = "idle"
    /\ \E ui \in states :
          callers' = [callers EXCEPT ![c] = [Idle EXCEPT !.pc = "called",
                         !.via = "gradio", !.self = "model", !.request = ui]]
    /\ UNCHANGED <<predictors, tie_up>>

\* A POST /predict with one of the bodies: Flask calls predict().
FlaskPost(c, bodies) ==
    /\ callers[c].pc = "idle"
    /\ \E data \in bodies :
          callers' = [callers EXCEPT ![c] = [Idle EXCEPT !.pc = "called",
                         !.via = "flask", !.self = "energy_model", !.request = data]]
    /\ UNCHANGED <<predictors, tie_up>>

\* Whether the call gets as far as predict_energy: predict() raises at its
\* first data.get when the body is no object.
ReachesPredictEnergy(cl) == cl.via = "flask" => cl.request.kind = "object"

\* Line 17: production = self.base_production.
ReadBase(c) ==
    /\ callers[c].pc = "called"
    /\ ReachesPredictEnergy(callers[c])
    /\ callers' = [callers EXCEPT ![c].pc = "l17",
                                  ![c].production = predictors[callers[c].self].base_production]
    /\ UNCHANGED <<predictors, tie_up>>

\* What the call returns to its caller, self being the predictor as the
\* call sees it.
Outcome(cl, self) ==
    CASE cl.via = "predict_energy" ->
            predict_energy(self, cl.request[1], cl.request[2], cl.request[3],
                           cl.request[4], cl.request[5], cl.request[6])
      [] cl.via = "run_simulation" ->
            run_simulation(self, cl.request[1], cl.request[2], cl.request[3],
                           cl.request[4], cl.request[5], cl.request[6])
      [] cl.via = "gradio" -> GradioClickResult(self, cl.request)
      [] cl.via = "flask"  -> PredictResponse(self, cl.request)

\* The predictor as the call in progress sees it: base_production is the
\* value line 17 read, when the call has got that far.
SelfOf(cl) ==
    IF cl.pc = "l17" THEN [predictors[cl.self] EXCEPT !.base_production = cl.production]
    ELSE predictors[cl.self]

\* Mutant: the call appends what it returns to self.simulation_history.
Finish_Records(c) ==
    /\ callers[c].pc = "l17" \/ (callers[c].pc = "called" /\ ~ReachesPredictEnergy(callers[c]))
    /\ callers' = [callers EXCEPT ![c].pc = "returned",
                                  ![c].outcome = Outcome(callers[c], SelfOf(callers[c]))]
    /\ predictors' = [predictors EXCEPT ![callers[c].self].simulation_history =
                                           Append(@, Outcome(callers[c], SelfOf(callers[c])))]
    /\ UNCHANGED tie_up

\* The rest of the call, lines 19 to 69 and the callers' lines after it.
\* Nothing is assigned to self.
Finish(c) ==
    /\ callers[c].pc = "l17" \/ (callers[c].pc = "called" /\ ~ReachesPredictEnergy(callers[c]))
    /\ callers' = [callers EXCEPT ![c].pc = "returned",
                                  ![c].outcome = Outcome(callers[c], SelfOf(callers[c]))]
    /\ UNCHANGED <<predictors, tie_up>>

\* The caller takes the result; the thread serves the next request.
Deliver(c) ==
    /\ callers[c].pc = "returned"
    /\ callers' = [callers EXCEPT ![c] = Idle]
    /\ UNCHANGED <<predictors, tie_up>>

\* The program as it runs: both adapters, served by concurrent callers.
Next ==
    \E c \in Callers :
        \/ GradioClick(c, FewPanelStates)
        \/ FlaskPost(c, FewPostedBodies)
        \/ ReadBase(c)
        \/ Finish(c)
        \/ Deliver(c)

Spec == Init /\ [][Next]_vars

\* One caller, every request of the two adapters and every direct call of
\* run_simulation.
AdapterNext ==
    \/ GradioClick(1, PanelStates)
    \/ FlaskPost(1, PostedBodies)
    \/ CallRunSimulation(1, SimulationInputs)
    \/ ReadBase(1)
    \/ Finish(1)
    \/ Deliver(1)

AdapterSpec == Init /\ [][AdapterNext]_vars

\* One caller, every call of predict_energy with numeric inputs.
PredictNext ==
    \/ CallPredictEnergy(1, PredictInputs)
    \/ ReadBase(1)
    \/ Finish(1)
    \/ Deliver(1)

PredictSpec == Init /\ [][PredictNext]_vars

(***************************************************************************)
(* The properties checked                                                  *)
(***************************************************************************)
\* The calls of an entry point that have returned.
Returned(entry) == {c \in Callers : callers[c].pc = "returned" /\ callers[c].via = entry}

Zero == Num(0, 1)

One == Num(1, 1)

IsNegative(x) == NumLess(x, Zero)

IsPositive(x) == NumLess(Zero, x)

\* The table of the specification: the row of a policy mode, the NEUTRAL
\* row for any value that is neither 'eco' nor 'non_eco'.
SpecRow(policy_mode) ==
    IF policy_mode = Str("eco")
    THEN [iw |-> Num(15, 1000), gw |-> Num(4, 100), ow |-> Num(7, 10), tw |-> Num(5, 10),
          greenBonus |-> Num(12, 10), efficiencyBonus |-> Num(11, 10)]
    ELSE IF policy_mode = Str("non_eco")
    THEN [iw |-> Num(25, 1000), gw |-> Num(2, 100), ow |-> Num(3, 10), tw |-> Num(2, 10),
          greenBonus |-> Num(8, 10), efficiencyBonus |-> Num(9, 10)]
    ELSE [iw |-> Num(2, 100), gw |-> Num(3, 100), ow |-> Num(5, 10), tw |-> Num(3, 10),
          greenBonus |-> One, efficiencyBonus |-> One]

SpecSeasonFactor(season) ==
    IF season = Str("SUMMER") THEN Num(115, 100)
    ELSE IF season = Str("WINTER") THEN Num(85, 100)
    ELSE One

\* The four intermediate multipliers of the formula, for numeric inputs:
\* (1 - iw*interestRate), (1 + gw*gdpGrowth), (1 + oilEffect), (1 + techEffect).
Multipliers(args) ==
    LET row == SpecRow(args[6]) IN
    << NumAdd(One, NumNeg(NumMul(row.iw, args[1]))),
       NumAdd(One, NumMul(row.gw, args[3])),
       NumAdd(One, NumMul(NumMul(NumAdd(args[4], Num(-60, 1)), Num(1, 60)), row.ow)),
       NumAdd(One, NumMul(NumMul(NumAdd(args[5], Num(-100, 1)), Num(1, 100)), row.tw)) >>

\* The closed form of the specification, for numeric inputs.
SpecFormula(args) ==
    LET row == SpecRow(args[6])
        m   == Multipliers(args)
        product == NumMul(NumMul(NumMul(NumMul(NumMul(NumMul(NumMul(
                       Num(1000, 1), m[1]), m[2]), m[3]), m[4]),
                       row.greenBonus), row.efficiencyBonus), SpecSeasonFactor(args[2]))
    IN  IF IsPositive(product) THEN product ELSE Zero

\* The argument tuple args with its season, or its policy mode, replaced.
WithSeason(args, season) == [args EXCEPT ![2] = season]

WithPolicyMode(args, policy_mode) == [args EXCEPT ![6] = policy_mode]

\* predict_energy on a freshly constructed predictor.
PredictEnergyOf(args) ==
    predict_energy(EnergyPolicyPredictor, args[1], args[2], args[3], args[4], args[5], args[6])

\* C1: for every numeric input, every season value and each of the modes
\* eco, non_eco and neutral, predict_energy returns the closed form
\* max(0, 1000 * (1 - iw*interestRate) * (1 + gw*gdpGrowth) * (1 + oilEffect) *
\* (1 + techEffect) * greenBonus * efficiencyBonus * seasonFactor) with the
\* weights of the specification's table and seasonFactor 1.15, 0.85 or 1.0.
C1_ClosedForm ==
    \A c \in Returned("predict_energy") :
        callers[c].request[6] \in {Str("eco"), Str("non_eco"), Str("neutral")}
            => callers[c].outcome = SpecFormula(callers[c].request)

C1_Witness ==
    \E c \in Returned("predict_energy") :
        /\ callers[c].request = <<Num(7, 2), Str("SUMMER"), Num(10, 1), Num(150, 1),
                                  Num(200, 1), Str("eco")>>
        /\ callers[c].outcome = SpecFormula(callers[c].request)
        /\ IsPositive(callers[c].outcome)

\* C2: for every numeric input, negative values and values outside the
\* sliders' ranges included, and every season and policy mode, the value
\* predict_energy returns is a number greater than or equal to 0.
C2_NeverNegative ==
    \A c \in Returned("predict_energy") :
        callers[c].outcome.t = "num" /\ ~IsNegative(callers[c].outcome)

\* A call whose product of multipliers is negative has returned 0.
C2_Witness ==
    \E c \in Returned("predict_energy") :
        /\ callers[c].request[1] = Num(1000, 1)
        /\ callers[c].request[3] = Num(5, 2)
        /\ callers[c].request[4] = Num(150, 1)
        /\ IsNegative(Multipliers(callers[c].request)[1])
        /\ callers[c].outcome = Zero

BaseCase == <<Num(7, 2), Str("SPRING_FALL"), Num(5, 2), Num(60, 1), Num(100, 1), Str("neutral")>>

\* 1000 * (1 - 0.02*3.5) * (1 + 0.03*2.5)
BaseCaseProduct ==
    NumMul(NumMul(Num(1000, 1), NumAdd(One, NumNeg(NumMul(Num(2, 100), Num(35, 10))))),
           NumAdd(One, NumMul(Num(3, 100), Num(25, 10))))

\* |x - y| < eps
Near(x, y, eps) ==
    LET diff == NumAdd(x, NumNeg(y)) IN NumLess(Num(Abs(diff.n), diff.d), eps)

\* C3 as stated: for the base-case inputs predict_energy returns
\* 1000 * (1 - 0.02*3.5) * (1 + 0.03*2.5), and that value is approximately
\* 1084.4 (within 0.1 of it).
C3_AsStated ==
    \A c \in Returned("predict_energy") :
        callers[c].request = BaseCase
            => /\ callers[c].outcome = BaseCaseProduct
               /\ Near(callers[c].outcome, Num(10844, 10), Num(1, 10))

\* C3 as amended: for the base-case inputs predict_energy returns
\* 1000 * (1 - 0.02*3.5) * (1 + 0.03*2.5), and that value is 999.75.
C3_BaseCase ==
    \A c \in Returned("predict_energy") :
        callers[c].request = BaseCase
            => /\ callers[c].outcome = BaseCaseProduct
               /\ callers[c].outcome = Num(99975, 100)

C3_Witness ==
    \E c \in Returned("predict_energy") :
        callers[c].request = BaseCase /\ Near(callers[c].outcome, Num(99975, 100), Num(1, 10))

\* C4: with season SUMMER predict_energy returns exactly 1.15 times, and
\* with season WINTER exactly 0.85 times, what it returns with season
\* SPRING_FALL and the other five inputs unchanged, also when the
\* SPRING_FALL result is clamped to 0.
C4_SeasonRatio ==
    \A c \in Returned("predict_energy") :
        LET springFall == PredictEnergyOf(WithSeason(callers[c].request, Str("SPRING_FALL")))
        IN  /\ callers[c].request[2] = Str("SUMMER")
                => callers[c].outcome = NumMul(Num(115, 100), springFall)
            /\ callers[c].request[2] = Str("WINTER")
                => callers[c].outcome = NumMul(Num(85, 100), springFall)

\* A WINTER call with a positive result, 0.85 times the SPRING_FALL one.
C4_Witness ==
    \E c \in Returned("predict_energy") :
        /\ callers[c].request[2] = Str("WINTER")
        /\ IsPositive(callers[c].outcome)
        /\ callers[c].outcome # PredictEnergyOf(WithSeason(callers[c].request, Str("SPRING_FALL")))

\* The number of negative multipliers, and whether one is zero.
NegativeCount(args) == Cardinality({i \in 1 .. 4 : IsNegative(Multipliers(args)[i])})

\* C5 as stated: for any inputs that drive one or more of the four
\* intermediate multipliers negative, predict_energy returns exactly 0.
C5_AsStated ==
    \A c \in Returned("predict_energy") :
        NegativeCount(callers[c].request) >= 1 => callers[c].outcome = Zero

\* C5 as amended: for any inputs that drive an odd number of the four
\* intermediate multipliers negative (for example interestRate=1000 alone),
\* predict_energy returns exactly 0.
C5_OddNegativeIsZero ==
    \A c \in Returned("predict_energy") :
        NegativeCount(callers[c].request) % 2 = 1 => callers[c].outcome = Zero

\* interestRate=1000 alone drives one multiplier negative: the result is 0.
C5_Witness ==
    \E c \in Returned("predict_energy") :
        /\ callers[c].request[1] = Num(1000, 1)
        /\ NegativeCount(callers[c].request) = 1
        /\ callers[c].outcome = Zero

\* C6: for every policy_mode other than 'eco' and 'non_eco' and every
\* choice of the other five inputs, predict_energy returns what it returns
\* with policy_mode 'neutral' and the same other inputs.
C6_UnrecognizedIsNeutral ==
    \A c \in Returned("predict_energy") :
        callers[c].request[6] \notin {Str("eco"), Str("non_eco")}
            => callers[c].outcome
                   = PredictEnergyOf(WithPolicyMode(callers[c].request, Str("neutral")))

\* An unrecognized mode, with inputs for which the three modes differ.
C6_Witness ==
    \E c \in Returned("predict_energy") :
        /\ callers[c].request[6] = Str("green")
        /\ IsPositive(callers[c].outcome)
        /\ callers[c].outcome # PredictEnergyOf(WithPolicyMode(callers[c].request, Str("eco")))
        /\ callers[c].outcome # PredictEnergyOf(WithPolicyMode(callers[c].request, Str("non_eco")))

\* run_simulation on a freshly constructed predictor.
RunSimulationOf(args) ==
    run_simulation(EnergyPolicyPredictor, args[1], args[2], args[3], args[4], args[5], args[6])

\* Both predictors are as __init__ left them.
PredictorsUntouched ==
    \A p \in PredictorNames :
        /\ predictors[p].base_production = Num(1000, 1)
        /\ predictors[p].simulation_history = <<>>

\* text is the number x >= 0 with one decimal place, a nearest tenth of x,
\* followed by " TOE".
IsOneDecimalTOE(text, x) ==
    LET whole == x.n \div x.d
        r     == x.n % x.d
        down  == 10 * whole + (10 * r) \div x.d
        r2    == (10 * r) % x.d
    IN  \E tenths \in {down, down + 1} :
            /\ text = ToString(tenths \div 10) \o "." \o ToString(tenths % 10) \o " TOE"
            /\ IF tenths = down THEN 2 * r2 <= x.d ELSE 2 * r2 >= x.d

\* C7: for every argument tuple, well typed or not, run_simulation returns a
\* string and propagates no failure: when predict_energy succeeds, the value
\* with one decimal place followed by " TOE"; when it raises, the text
\* "simulation error: <message>"; and the predictors' state is unchanged.
C7_NeverPropagates ==
    /\ PredictorsUntouched
    /\ \A c \in Returned("run_simulation") :
          LET prediction == PredictEnergyOf(callers[c].request) IN
          /\ callers[c].outcome.t = "str"
          /\ ~IsRaised(prediction) => IsOneDecimalTOE(callers[c].outcome.s, prediction)
          /\ IsRaised(prediction)
                => callers[c].outcome.s = "simulation error: " \o prediction.s

\* A call with interest_rate None has returned the error text.
C7_Witness ==
    \E c \in Returned("run_simulation") :
        /\ callers[c].request[1] = None
        /\ callers[c].outcome
              = Str("simulation error: unsupported operand type(s) for *: 'float' and 'NoneType'")

\* The defaults of the six fields of POST /predict.
FieldDefaults ==
    [interest_rate |-> Num(35, 10), season |-> Str("SPRING_FALL"), gdp_growth |-> Num(25, 10),
     oil_price |-> Num(60, 1), tech_investment |-> Num(100, 1), policy_mode |-> Str("neutral")]

NumericKeys == {"interest_rate", "gdp_growth", "oil_price", "tech_investment"}

\* A field that is present and of its type: a number, or for season and
\* policy_mode a string.  Any other is missing or malformed.
WellFormed(key, v) == IF key \in NumericKeys THEN v.t = "num" ELSE v.t = "str"

\* run_simulation's text for the fields f of a body.
SimulationTextOf(f) ==
    RunSimulationOf(<<f["interest_rate"], f["season"], f["gdp_growth"], f["oil_price"],
                      f["tech_investment"], f["policy_mode"]>>).s

\* The messages of the TypeErrors that predict_energy raises.
TypeErrorMessages ==
    {"can't multiply sequence by non-int of type 'float'",
     "unsupported operand type(s) for *: 'float' and 'NoneType'",
     "unsupported operand type(s) for -: 'NoneType' and 'int'",
     "unsupported operand type(s) for -: 'str' and 'int'"}

\* C8 as stated, for the requests whose body is a JSON object: each field
\* that is missing or malformed (absent, null or of the wrong type) is
\* replaced by its default; the request is not rejected, and the response is
\* the prediction computed with those defaults.
C8_AsStated ==
    \A c \in Returned("flask") :
        LET f == callers[c].request.fields
            g == [k \in JsonKeys |-> IF WellFormed(k, f[k]) THEN f[k] ELSE FieldDefaults[k]]
        IN  callers[c].request.kind = "object"
                => /\ callers[c].outcome.n = 200
                   /\ callers[c].outcome.s = SimulationTextOf(g)

\* C8 as amended: for every POST /predict request whose body is a JSON
\* object, each field whose key is absent is replaced by its default and
\* each field that is present, null or of the wrong type included, is
\* passed to run_simulation as it is; the request is not rejected, and the
\* response is run_simulation's text for those values, which is the error
\* text when a numeric field is null or a string.
C8_AbsentKeysDefaulted ==
    \A c \in Returned("flask") :
        LET f == callers[c].request.fields
            g == [k \in JsonKeys |-> IF f[k] = Absent THEN FieldDefaults[k] ELSE f[k]]
        IN  callers[c].request.kind = "object"
                => /\ callers[c].outcome.n = 200
                   /\ callers[c].outcome.s = SimulationTextOf(g)
                   /\ (\E k \in NumericKeys : f[k].t \in {"NoneType", "str"})
                         => callers[c].outcome.s
                               \in {"simulation error: " \o m : m \in TypeErrorMessages}

\* A body whose interest_rate is null and whose other keys are absent has
\* been answered with the error text.
C8_Witness ==
    \E c \in Returned("flask") :
        /\ callers[c].request.kind = "object"
        /\ callers[c].request.fields = [NullBody.fields EXCEPT !["interest_rate"] = None]
        /\ callers[c].outcome.n = 200
        /\ callers[c].outcome.s
              = "simulation error: unsupported operand type(s) for *: 'float' and 'NoneType'"

\* C9: after any sequence and interleaving of calls made by concurrent
\* callers through either adapter, each predictor's base_production is still
\* 1000 and its simulation_history still empty, and what a call returns
\* depends only on its own arguments: it is what the same call returns on a
\* freshly constructed predictor, whatever ran before or beside it.
C9_NoSharedState ==
    /\ PredictorsUntouched
    /\ \A c \in Callers :
          callers[c].pc = "returned"
              => callers[c].outcome = Outcome(callers[c], EnergyPolicyPredictor)
    /\ \A c1, c2 \in Callers :
          /\ callers[c1].pc = "returned" /\ callers[c2].pc = "returned"
          /\ callers[c1].via = callers[c2].via
          /\ callers[c1].request = callers[c2].request
          => callers[c1].outcome = callers[c2].outcome

\* Two calls through different adapters overlap: one has returned a
\* prediction while the other is between line 17 and its return.
C9_Witness ==
    \E c1, c2 \in Callers :
        /\ callers[c1].pc = "returned" /\ callers[c1].via = "flask"
        /\ callers[c1].outcome.n = 200
        /\ callers[c2].pc = "l17" /\ callers[c2].via = "gradio"

\* The body that carries the values of the panel, and the panel that holds
\* the values of a body.
BodyOfPanel(ui) ==
    [kind |-> "object",
     fields |-> [interest_rate |-> ui.interest, season |-> ui.season, gdp_growth |-> ui.gdp,
                 oil_price |-> ui.oil, tech_investment |-> ui.tech,
                 policy_mode |-> ui.policy_mode]]

PanelOfBody(data) ==
    [interest |-> data.fields.interest_rate, season |-> data.fields.season,
     gdp |-> data.fields.gdp_growth, oil |-> data.fields.oil_price,
     tech |-> data.fields.tech_investment, policy_mode |-> data.fields.policy_mode]

\* C10: for every tuple of six values, the panel's callback and the POST
\* /predict handler given a body with the same six values produce the same
\* formatted prediction string, although they use separate predictors.
C10_AdaptersAgree ==
    /\ \A c \in Returned("gradio") :
          LET response == PredictResponse(predictors["energy_model"],
                                          BodyOfPanel(callers[c].request))
          IN  response.n = 200 /\ callers[c].outcome.s = response.s
    /\ \A c \in Returned("flask") :
          (/\ callers[c].request.kind = "object"
           /\ \A k \in JsonKeys : callers[c].request.fields[k] # Absent)
          => /\ callers[c].outcome.n = 200
             /\ callers[c].outcome.s
                   = GradioClickResult(predictors["model"], PanelOfBody(callers[c].request)).s

\* A click with values other than the defaults has produced a prediction.
C10_Witness ==
    \E c \in Returned("gradio") :
        /\ callers[c].request.policy_mode = Str("eco")
        /\ callers[c].request.gdp = Num(-1, 1)
        /\ callers[c].request.season = Str("WINTER")
        /\ callers[c].outcome.s
              = PredictResponse(predictors["energy_model"], BodyOfPanel(callers[c].request)).s
        /\ callers[c].outcome.s \notin {"simulation error: " \o m : m \in TypeErrorMessages}

=============================================================================
